---- MODULE Spec2Model ----
(***************************************************************************)
(* Model of eemeter/meter/library.py: the meter classes, their             *)
(* construction-time configuration and their evaluate operations.          *)
(*                                                                         *)
(* Floating point numbers are modelled exactly: a number is a record       *)
(* [k, n, d, r].  k = "fin" stands for (n/d)*sqrt(r) with d > 0, r > 0     *)
(* (r = 1 for every number that is not the result of a square root),       *)
(* k = "nan" for NaN, k = "inf" for +inf (n = 1) and -inf (n = -1),        *)
(* k = "bool" for a Python bool (n = 1 True, n = 0 False).  Rounding and   *)
(* the sign of zero are abstracted away; NaN and infinity follow IEEE 754  *)
(* as numpy evaluates them (warnings, no exceptions).                      *)
(***************************************************************************)
EXTENDS Integers, Sequences, FiniteSets, TLC

(* ------------------------------ bounds --------------------------------- *)
\* longest consumption history of one fuel type
MaxPeriods == 3
\* longest consumption period, in days
MaxDays == 2
\* largest raw usage of one period
MaxUsage == 2
\* largest fitted parameter value / largest number of fitted parameters
MaxParam == 2
MaxParams == 2
\* largest daily temperature the weather sources report
MaxTemp == 1
\* number of daily normals a weather normal source reports for its year
NormalDays == 3
\* last instant of the wall clock
MaxTime == 3
\* evaluate calls followed on one meter instance
MaxCalls == 2
\* longest list of fuel types a fan-out or presence meter is built with
MaxFuelTypes == 2
\* largest base temperature and largest degree-day threshold of a call
MaxBase == 2
MaxThreshold == 2
\* largest proportion a threshold meter is built with
MaxProportion == 2

(* -------------------------------- clock -------------------------------- *)
\* the wall clock, in days: what datetime.now() returns
VARIABLE now
\* the instant library.py was loaded: the default of since_date is bound then
ImportTime == 0

(* --------------------------- float arithmetic -------------------------- *)
RECURSIVE GCD(_, _)
GCD(a, b) == IF b = 0 THEN a ELSE GCD(b, a % b)

AbsInt(a) == IF a < 0 THEN -a ELSE a

NaN == [k |-> "nan", n |-> 0, d |-> 1, r |-> 1]
Inf(s) == [k |-> "inf", n |-> s, d |-> 1, r |-> 1]
Bool(b) == [k |-> "bool", n |-> IF b THEN 1 ELSE 0, d |-> 1, r |-> 1]

\* (n/d)*sqrt(r) in lowest terms, d > 0
FinR(n, d, r) ==
    IF n = 0 THEN [k |-> "fin", n |-> 0, d |-> 1, r |-> 1]
    ELSE LET s == IF d < 0 THEN -1 ELSE 1
             g == GCD(AbsInt(n), AbsInt(d))
         IN  [k |-> "fin", n |-> (s * n) \div g, d |-> (s * d) \div g, r |-> r]
Fin(n, d) == FinR(n, d, 1)
Num(i) == Fin(i, 1)

IsNaN(v) == v.k = "nan"
IsFinite(v) == v.k = "fin"
Sign(v) == IF v.n > 0 THEN 1 ELSE IF v.n < 0 THEN -1 ELSE 0

Neg(a) == IF a.k = "nan" THEN NaN ELSE [a EXCEPT !.n = -a.n]

\* a + b (both operands free of square roots)
Add(a, b) ==
    CASE a.k = "nan" \/ b.k = "nan" -> NaN
      [] a.k = "inf" /\ b.k = "inf" -> IF a.n = b.n THEN a ELSE NaN
      [] a.k = "inf" -> a
      [] b.k = "inf" -> b
      [] OTHER -> Fin(a.n * b.d + b.n * a.d, a.d * b.d)
Sub(a, b) == Add(a, Neg(b))

Mul(a, b) ==
    CASE a.k = "nan" \/ b.k = "nan" -> NaN
      [] a.k = "inf" \/ b.k = "inf" ->
            IF Sign(a) * Sign(b) = 0 THEN NaN ELSE Inf(Sign(a) * Sign(b))
      [] OTHER -> FinR(a.n * b.n, a.d * b.d, a.r * b.r)

\* a / b with numpy float64 semantics: x/0 is +-inf, 0/0 is NaN
Div(a, b) ==
    CASE a.k = "nan" \/ b.k = "nan" -> NaN
      [] a.k = "inf" /\ b.k = "inf" -> NaN
      [] a.k = "inf" -> Inf(IF Sign(b) < 0 THEN -a.n ELSE a.n)
      [] b.k = "inf" -> Num(0)
      [] b.n = 0 -> IF a.n = 0 THEN NaN ELSE Inf(Sign(a))
      [] OTHER -> FinR(a.n * b.d, a.d * b.n * b.r, a.r * b.r)

Abs(a) == IF a.k = "nan" THEN NaN ELSE [a EXCEPT !.n = AbsInt(a.n)]
Sq(a) == Mul(a, a)

\* a ** .5 and np.sqrt(a): sqrt(n/d) = (1/d)*sqrt(n*d), NaN below zero
PowHalf(a) ==
    CASE a.k = "nan" -> NaN
      [] a.k = "inf" -> IF a.n > 0 THEN a ELSE NaN
      [] a.n < 0 -> NaN
      [] a.n = 0 -> a
      [] OTHER -> FinR(1, a.d, a.n * a.d)

\* a < b; every comparison with NaN is False
Less(a, b) ==
    CASE a.k = "nan" \/ b.k = "nan" -> FALSE
      [] a.k = "inf" /\ b.k = "inf" -> a.n < b.n
      [] a.k = "inf" -> a.n < 0
      [] b.k = "inf" -> b.n > 0
      [] OTHER -> a.n * b.d < b.n * a.d
Equal(a, b) ==
    CASE a.k = "nan" \/ b.k = "nan" -> FALSE
      [] a.k = "inf" \/ b.k = "inf" -> a.k = b.k /\ a.n = b.n
      [] OTHER -> a.n * b.d = b.n * a.d
LessEq(a, b) == Less(a, b) \/ Equal(a, b)

\* the sum of xs[lo..hi], halving the range as numpy's pairwise summation does
RECURSIVE SumRange(_, _, _)
SumRange(xs, lo, hi) ==
    IF lo > hi THEN Num(0)
    ELSE IF lo = hi THEN xs[lo]
    ELSE LET mid == (lo + hi) \div 2
         IN  Add(SumRange(xs, lo, mid), SumRange(xs, mid + 1, hi))

np_sum(xs) == SumRange(xs, 1, Len(xs))

\* np_nansum with the NaN kept in the sum
np_nansum_propagating(xs) == np_sum(xs)

\* np.nansum: NaN counts as zero
np_nansum(xs) ==
    SumRange([i \in 1..Len(xs) |-> IF IsNaN(xs[i]) THEN Num(0) ELSE xs[i]], 1, Len(xs))

\* np.mean: NaN as soon as one element is NaN, and NaN of an empty array
np_mean(xs) == Div(np_sum(xs), Num(Len(xs)))

\* elementwise arithmetic of two arrays of one length, and of an array and a scalar
ArrSub(xs, ys) == [i \in 1..Len(xs) |-> Sub(xs[i], ys[i])]
ArrDiv(xs, ys) == [i \in 1..Len(xs) |-> Div(xs[i], ys[i])]
ArrSubScalar(xs, y) == [i \in 1..Len(xs) |-> Sub(xs[i], y)]
ArrAbs(xs) == [i \in 1..Len(xs) |-> Abs(xs[i])]
ArrSq(xs) == [i \in 1..Len(xs) |-> Sq(xs[i])]

(* ------------------- entities and collaborators ------------------------ *)
(* A ConsumptionPeriod is [start, end, usage]: days since the epoch and    *)
(* the raw usage in the fuel unit the meter asks for, NaN when missing.    *)
(* A ConsumptionHistory maps a fuel type to its periods.  A weather source *)
(* is [even, odd]: the temperature it reports, in the unit asked for, on   *)
(* even and on odd days.  The model collaborator is [fit]: the parameters  *)
(* its optimizer returns on the data of the run.                           *)
DaysPerYear == 365

timedelta_days(c) == c.end - c.start
to(c) == c.usage
average_daily_usage(c) == Div(to(c), Num(timedelta_days(c)))
get(consumption_history, fuel_type) ==
    IF fuel_type \in DOMAIN consumption_history
    THEN consumption_history[fuel_type] ELSE <<>>

Temp(source, day) == IF day % 2 = 0 THEN source.even ELSE source.odd
get_daily_temperatures(source, periods) ==
    [i \in 1..Len(periods) |->
        [j \in 1..timedelta_days(periods[i]) |-> Num(Temp(source, periods[i].start + j - 1))]]
\* the daily normals of one year, of which the source holds NormalDays
annual_daily_temperatures(source) ==
    [i \in 1..NormalDays |-> <<Num(Temp(source, i - 1))>>]

Max0(v) == IF Less(v, Num(0)) THEN Num(0) ELSE v
SumHDD(temps, base) == np_sum([j \in 1..Len(temps) |-> Max0(Sub(Num(base), temps[j]))])
SumCDD(temps, base) == np_sum([j \in 1..Len(temps) |-> Max0(Sub(temps[j], Num(base)))])
get_hdd(source, periods, base) ==
    LET t == get_daily_temperatures(source, periods)
    IN  [i \in 1..Len(periods) |-> SumHDD(t[i], base)]
get_cdd(source, periods, base) ==
    LET t == get_daily_temperatures(source, periods)
    IN  [i \in 1..Len(periods) |-> SumCDD(t[i], base)]
get_hdd_per_day(source, periods, base) ==
    LET h == get_hdd(source, periods, base)
    IN  [i \in 1..Len(periods) |-> Div(h[i], Num(timedelta_days(periods[i])))]
get_cdd_per_day(source, periods, base) ==
    LET h == get_cdd(source, periods, base)
    IN  [i \in 1..Len(periods) |-> Div(h[i], Num(timedelta_days(periods[i])))]

\* the 365 one-day periods from 2013-01-01 (day 0 of the normal year)
YearPeriods == [i \in 1..DaysPerYear |-> [start |-> i - 1, end |-> i, usage |-> NaN]]

parameter_optimization(model, usages, temps, weights) == model.fit
\* base load per day plus, with a second parameter, a load per degree
compute_usage_estimates(params, temps) ==
    [i \in 1..Len(temps) |->
        Add(Mul(params[1], Num(Len(temps[i]))),
            IF Len(params) >= 2 THEN Mul(params[2], np_sum(temps[i])) ELSE Num(0))]

(* ------------------------------ results -------------------------------- *)
EmptyOut == [key \in {} |-> NaN]
Params(p) == [k |-> "params", n |-> 0, d |-> 1, r |-> 1, p |-> p]
Ok(out) == [status |-> "ok", out |-> out, error |-> "", key |-> ""]
Raise(error, key) == [status |-> "error", out |-> EmptyOut, error |-> error, key |-> key]
NoResult == [status |-> "none", out |-> EmptyOut, error |-> "", key |-> ""]

(* ----------------------- the caller's inputs --------------------------- *)
(* The keyword arguments of one evaluate call: `present` holds the names   *)
(* the caller passed, the other fields their values (a field whose name    *)
(* is not in `present` is not part of the call).                           *)
NoHistory == [fuel_type \in {} |-> <<>>]
NoSource == [even |-> 0, odd |-> 0]
NoInputs ==
    [present |-> {},
     consumption_history |-> NoHistory,
     consumption_history_post |-> NoHistory,
     weather_source |-> NoSource,
     weather_normal_source |-> NoSource,
     temp_sensitivity_params |-> <<>>,
     temp_sensitivity_params_pre |-> <<>>,
     temp_sensitivity_params_post |-> <<>>,
     hdd |-> Num(0),
     cdd |-> Num(0),
     fuel_type |-> ""]

Range(s) == {s[i] : i \in 1..Len(s)}

(* ------------------------- construction -------------------------------- *)
TemperatureSensitivityParameterOptimizationMeter_init(fuel_unit_str, fuel_type, temperature_unit_str, model) ==
    [cls |-> "TemperatureSensitivityParameterOptimizationMeter",
     fuel_unit_str |-> fuel_unit_str, fuel_type |-> fuel_type,
     temperature_unit_str |-> temperature_unit_str, model |-> model]

AnnualizedUsageMeter_init(temperature_unit_str, model) ==
    [cls |-> "AnnualizedUsageMeter",
     temperature_unit_str |-> temperature_unit_str, model |-> model]

GrossSavingsMeter_init(model, fuel_unit_str, fuel_type, temperature_unit_str) ==
    [cls |-> "GrossSavingsMeter", model |-> model, fuel_type |-> fuel_type,
     fuel_unit_str |-> fuel_unit_str, temperature_unit_str |-> temperature_unit_str]

AnnualizedGrossSavingsMeter_init(model, fuel_type, temperature_unit_str) ==
    [cls |-> "AnnualizedGrossSavingsMeter", model |-> model, fuel_type |-> fuel_type,
     temperature_unit_str |-> temperature_unit_str]

FuelTypePresenceMeter_init(fuel_types) ==
    [cls |-> "FuelTypePresenceMeter", fuel_types |-> fuel_types]

\* `meter` is the one-element sequence holding the inner meter
ForEachFuelType_init(fuel_types, meter) ==
    [cls |-> "ForEachFuelType", fuel_types |-> fuel_types, meter |-> <<meter>>]

TimeSpanMeter_init == [cls |-> "TimeSpanMeter"]

TotalHDDMeter_init(base, temperature_unit_str) ==
    [cls |-> "TotalHDDMeter", base |-> base, temperature_unit_str |-> temperature_unit_str]
TotalCDDMeter_init(base, temperature_unit_str) ==
    [cls |-> "TotalCDDMeter", base |-> base, temperature_unit_str |-> temperature_unit_str]
NormalAnnualHDD_init(base, temperature_unit_str) ==
    [cls |-> "NormalAnnualHDD", base |-> base, temperature_unit_str |-> temperature_unit_str]
NormalAnnualCDD_init(base, temperature_unit_str) ==
    [cls |-> "NormalAnnualCDD", base |-> base, temperature_unit_str |-> temperature_unit_str]

\* the constructor stores the operation string as given
NPeriodsMeetingHDDPerDayThreshold_init(base, temperature_unit_str, operation, proportion) ==
    [cls |-> "NPeriodsMeetingHDDPerDayThreshold", base |-> base,
     temperature_unit_str |-> temperature_unit_str,
     operation |-> operation, proportion |-> proportion]
NPeriodsMeetingCDDPerDayThreshold_init(base, temperature_unit_str, operation, proportion) ==
    [cls |-> "NPeriodsMeetingCDDPerDayThreshold", base |-> base,
     temperature_unit_str |-> temperature_unit_str,
     operation |-> operation, proportion |-> proportion]

\* since_date defaults to the instant the module was loaded
RecentReadingMeter_init(n_days, since_date) ==
    [cls |-> "RecentReadingMeter", dt_target |-> since_date - n_days]

CVRMSE_init(model, fuel_unit_str) ==
    [cls |-> "CVRMSE", model |-> model, fuel_unit_str |-> fuel_unit_str]

(* --------------------------- evaluation -------------------------------- *)
RECURSIVE evaluate(_, _)

TemperatureSensitivityParameterOptimizationMeter_evaluate_mapped_inputs(self, consumption_history, weather_source) ==
    LET consumptions == get(consumption_history, self.fuel_type)
        average_daily_usages ==
            [i \in 1..Len(consumptions) |-> average_daily_usage(consumptions[i])]
        observed_daily_temps == get_daily_temperatures(weather_source, consumptions)
        weights == [i \in 1..Len(consumptions) |-> timedelta_days(consumptions[i])]
        params == parameter_optimization(self.model, average_daily_usages,
                                         observed_daily_temps, weights)
        n_daily_temps ==
            [i \in 1..Len(observed_daily_temps) |-> Num(Len(observed_daily_temps[i]))]
        estimated_daily_usages ==
            ArrDiv(compute_usage_estimates(params, observed_daily_temps), n_daily_temps)
        sqrtn == PowHalf(Num(Len(estimated_daily_usages)))
        daily_standard_error ==
            Div(np_nansum(ArrAbs(ArrSub(estimated_daily_usages, average_daily_usages))), sqrtn)
        mean_daily_usage == np_mean(average_daily_usages)
        ss_residual == np_nansum(ArrSq(ArrSub(estimated_daily_usages, average_daily_usages)))
        ss_total == np_nansum(ArrSq(ArrSubScalar(average_daily_usages, mean_daily_usage)))
        R_squared == Sub(Num(1), Div(ss_residual, ss_total))
    IN  Ok([temp_sensitivity_params |-> Params(params),
            daily_standard_error |-> daily_standard_error,
            R_squared |-> R_squared])

AnnualizedUsageMeter_evaluate_mapped_inputs(self, temp_sensitivity_params, weather_normal_source) ==
    LET daily_temps == annual_daily_temperatures(weather_normal_source)
        usage_estimates == compute_usage_estimates(temp_sensitivity_params, daily_temps)
        annualized_usage == np_nansum(usage_estimates)
    IN  Ok([annualized_usage |-> annualized_usage])

GrossSavingsMeter_evaluate_mapped_inputs(self, temp_sensitivity_params_pre, consumption_history_post, weather_source) ==
    LET consumptions_post == get(consumption_history_post, self.fuel_type)
        observed_daily_temps == get_daily_temperatures(weather_source, consumptions_post)
        usages_post == [i \in 1..Len(consumptions_post) |-> to(consumptions_post[i])]
        usage_estimates_pre ==
            compute_usage_estimates(temp_sensitivity_params_pre, observed_daily_temps)
    IN  Ok([gross_savings |-> np_nansum(ArrSub(usage_estimates_pre, usages_post))])

\* the years counted from the number of post periods, not from their lengths
AnnualizedGrossSavingsMeter_evaluate_by_periods(self, temp_sensitivity_params_pre, temp_sensitivity_params_post, consumption_history_post, weather_normal_source) ==
    LET meter == AnnualizedUsageMeter_init(self.temperature_unit_str, self.model)
        pre == evaluate(meter,
                 [NoInputs EXCEPT !.present = {"temp_sensitivity_params", "weather_normal_source"},
                                  !.temp_sensitivity_params = temp_sensitivity_params_pre,
                                  !.weather_normal_source = weather_normal_source])
        post == evaluate(meter,
                 [NoInputs EXCEPT !.present = {"temp_sensitivity_params", "weather_normal_source"},
                                  !.temp_sensitivity_params = temp_sensitivity_params_post,
                                  !.weather_normal_source = weather_normal_source])
        consumptions_post == get(consumption_history_post, self.fuel_type)
        n_years == Div(Num(Len(consumptions_post)), Num(DaysPerYear))
    IN  Ok([annualized_gross_savings |->
              Mul(n_years, Sub(pre.out["annualized_usage"], post.out["annualized_usage"]))])

AnnualizedGrossSavingsMeter_evaluate_mapped_inputs(self, temp_sensitivity_params_pre, temp_sensitivity_params_post, consumption_history_post, weather_normal_source) ==
    LET meter == AnnualizedUsageMeter_init(self.temperature_unit_str, self.model)
        pre == evaluate(meter,
                 [NoInputs EXCEPT !.present = {"temp_sensitivity_params", "weather_normal_source"},
                                  !.temp_sensitivity_params = temp_sensitivity_params_pre,
                                  !.weather_normal_source = weather_normal_source])
        post == evaluate(meter,
                 [NoInputs EXCEPT !.present = {"temp_sensitivity_params", "weather_normal_source"},
                                  !.temp_sensitivity_params = temp_sensitivity_params_post,
                                  !.weather_normal_source = weather_normal_source])
    IN  IF pre.status = "error" THEN pre
        ELSE IF post.status = "error" THEN post
        ELSE LET annualized_usage_pre == pre.out["annualized_usage"]
                 annualized_usage_post == post.out["annualized_usage"]
                 annualized_usage_savings == Sub(annualized_usage_pre, annualized_usage_post)
                 consumptions_post == get(consumption_history_post, self.fuel_type)
                 n_years ==
                    Div(np_sum([i \in 1..Len(consumptions_post) |->
                                   Num(timedelta_days(consumptions_post[i]))]),
                        Num(DaysPerYear))
                 annualized_gross_savings == Mul(n_years, annualized_usage_savings)
             IN  Ok([annualized_gross_savings |-> annualized_gross_savings])

FuelTypePresenceMeter_evaluate_mapped_inputs(self, consumption_history) ==
    Ok([key \in {ft \o "_presence" : ft \in Range(self.fuel_types)} |->
          LET fuel_type == CHOOSE ft \in Range(self.fuel_types) : ft \o "_presence" = key
          IN  Bool(get(consumption_history, fuel_type) # <<>>)])

\* "{}_{}".format(k, fuel_type)
Format(k, fuel_type) == k \o "_" \o fuel_type

\* the entries `results[Format(k, fuel_type)] = v` write into `results`, for
\* the (k, v) of one inner result: a key already there is overwritten
Renamed(results, result, fuel_type) ==
    [key \in DOMAIN results \cup {Format(k, fuel_type) : k \in DOMAIN result} |->
        IF \E k \in DOMAIN result : Format(k, fuel_type) = key
        THEN result[CHOOSE k \in DOMAIN result : Format(k, fuel_type) = key]
        ELSE results[key]]

\* the inputs of the inner call: the caller's, with fuel_type set or replaced
Injected(kwargs, fuel_type) ==
    [kwargs EXCEPT !.fuel_type = fuel_type, !.present = @ \cup {"fuel_type"}]

\* the loop with a category whose inner evaluation fails skipped
RECURSIVE ForEachFuelType_loop_skipping(_, _, _, _)
ForEachFuelType_loop_skipping(self, kwargs, i, results) ==
    IF i > Len(self.fuel_types) THEN Ok(results)
    ELSE LET fuel_type == self.fuel_types[i]
             inputs == Injected(kwargs, fuel_type)
             result == evaluate(self.meter[1], inputs)
         IN  ForEachFuelType_loop_skipping(self, kwargs, i + 1,
                 IF result.status = "error" THEN results
                 ELSE Renamed(results, result.out, fuel_type))

\* the loop of ForEachFuelType from its i-th fuel type on; an exception of
\* the inner meter leaves the loop and the method
RECURSIVE ForEachFuelType_loop(_, _, _, _)
ForEachFuelType_loop(self, kwargs, i, results) ==
    IF i > Len(self.fuel_types) THEN Ok(results)
    ELSE LET fuel_type == self.fuel_types[i]
             inputs == Injected(kwargs, fuel_type)
             result == evaluate(self.meter[1], inputs)
         IN  IF result.status = "error" THEN result
             ELSE ForEachFuelType_loop(self, kwargs, i + 1,
                                       Renamed(results, result.out, fuel_type))

ForEachFuelType_evaluate_mapped_inputs(self, kwargs) ==
    ForEachFuelType_loop(self, kwargs, 1, EmptyOut)

TimeSpanMeter_evaluate_mapped_inputs(self, consumption_history, fuel_type) ==
    LET consumptions == get(consumption_history, fuel_type)
        dates == UNION {consumptions[i].start .. (consumptions[i].end - 1) :
                           i \in 1..Len(consumptions)}
    IN  Ok([time_span |-> Num(Cardinality(dates))])

TotalHDDMeter_evaluate_mapped_inputs(self, consumption_history, fuel_type, weather_source) ==
    LET consumptions == get(consumption_history, fuel_type)
        hdd == get_hdd(weather_source, consumptions, self.base)
    IN  Ok([total_hdd |-> np_sum(hdd)])

TotalCDDMeter_evaluate_mapped_inputs(self, consumption_history, fuel_type, weather_source) ==
    LET consumptions == get(consumption_history, fuel_type)
        cdd == get_cdd(weather_source, consumptions, self.base)
    IN  Ok([total_cdd |-> np_sum(cdd)])

NormalAnnualHDD_evaluate_mapped_inputs(self, weather_normal_source) ==
    Ok([normal_annual_hdd |-> np_sum(get_hdd(weather_normal_source, YearPeriods, self.base))])

NormalAnnualCDD_evaluate_mapped_inputs(self, weather_normal_source) ==
    Ok([normal_annual_cdd |-> np_sum(get_cdd(weather_normal_source, YearPeriods, self.base))])

\* Meets with the boundary of lte and gte lost
Meets_strict(operation, rate, proportion, threshold) ==
    CASE operation \in {"lt", "lte"} -> IF Less(rate, Mul(proportion, threshold)) THEN 1 ELSE 0
      [] operation \in {"gt", "gte"} -> IF Less(Mul(proportion, threshold), rate) THEN 1 ELSE 0
      [] OTHER -> 0

\* one pass of the loop body over the rate of one period: 1 when n_periods
\* is incremented, 0 otherwise (no branch is taken for any other operation)
Meets(operation, rate, proportion, threshold) ==
    CASE operation = "lt" -> IF Less(rate, Mul(proportion, threshold)) THEN 1 ELSE 0
      [] operation = "lte" -> IF LessEq(rate, Mul(proportion, threshold)) THEN 1 ELSE 0
      [] operation = "gt" -> IF Less(Mul(proportion, threshold), rate) THEN 1 ELSE 0
      [] operation = "gte" -> IF LessEq(Mul(proportion, threshold), rate) THEN 1 ELSE 0
      [] OTHER -> 0

RECURSIVE CountMeeting(_, _, _, _)
CountMeeting(operation, rates, proportion, threshold) ==
    IF rates = <<>> THEN 0
    ELSE Meets(operation, Head(rates), proportion, threshold)
         + CountMeeting(operation, Tail(rates), proportion, threshold)

NPeriodsMeetingHDDPerDayThreshold_evaluate_mapped_inputs(self, consumption_history, fuel_type, hdd, weather_source) ==
    LET consumptions == get(consumption_history, fuel_type)
        hdds == get_hdd_per_day(weather_source, consumptions, self.base)
    IN  Ok([n_periods |-> Num(CountMeeting(self.operation, hdds, self.proportion, hdd))])

NPeriodsMeetingCDDPerDayThreshold_evaluate_mapped_inputs(self, consumption_history, fuel_type, cdd, weather_source) ==
    LET consumptions == get(consumption_history, fuel_type)
        cdds == get_cdd_per_day(weather_source, consumptions, self.base)
    IN  Ok([n_periods |-> Num(CountMeeting(self.operation, cdds, self.proportion, cdd))])

\* the cutoff taken from the clock at the call instead of at construction
RecentReadingMeter_evaluate_at_call(self, consumption_history, fuel_type) ==
    LET consumptions == get(consumption_history, fuel_type)
    IN  Ok([recent_reading |->
              Bool(\E i \in 1..Len(consumptions) :
                      consumptions[i].end > self.dt_target + (now - ImportTime))])

RecentReadingMeter_evaluate_mapped_inputs(self, consumption_history, fuel_type) ==
    LET consumptions == get(consumption_history, fuel_type)
    IN  Ok([recent_reading |->
              Bool(\E i \in 1..Len(consumptions) : consumptions[i].end > self.dt_target)])

CVRMSE_evaluate_mapped_inputs(self, consumption_history, weather_source, fuel_type) ==
    LET consumptions == get(consumption_history, fuel_type)
        weights == [i \in 1..Len(consumptions) |-> Num(timedelta_days(consumptions[i]))]
        average_daily_usages ==
            ArrDiv([i \in 1..Len(consumptions) |-> to(consumptions[i])], weights)
        observed_daily_temps == get_daily_temperatures(weather_source, consumptions)
        params == parameter_optimization(self.model, average_daily_usages,
                                         observed_daily_temps, weights)
        estimated_daily_usages ==
            ArrDiv(compute_usage_estimates(params, observed_daily_temps), weights)
        y == average_daily_usages
        y_hat == estimated_daily_usages
        y_bar == np_mean(average_daily_usages)
        n == Len(consumptions)
        p == Len(params)
        cvrmse == Div(Mul(Num(100), PowHalf(Div(np_sum(ArrSq(ArrSub(y, y_hat))), Num(n - p)))),
                      y_bar)
    IN  Ok([cvrmse |-> cvrmse])

\* the named inputs the signature of evaluate_mapped_inputs requires, in order
Required(cls) ==
    CASE cls = "TemperatureSensitivityParameterOptimizationMeter" ->
            <<"consumption_history", "weather_source">>
      [] cls = "AnnualizedUsageMeter" ->
            <<"temp_sensitivity_params", "weather_normal_source">>
      [] cls = "GrossSavingsMeter" ->
            <<"temp_sensitivity_params_pre", "consumption_history_post", "weather_source">>
      [] cls = "AnnualizedGrossSavingsMeter" ->
            <<"temp_sensitivity_params_pre", "temp_sensitivity_params_post",
              "consumption_history_post", "weather_normal_source">>
      [] cls = "FuelTypePresenceMeter" -> <<"consumption_history">>
      [] cls = "ForEachFuelType" -> <<>>
      [] cls = "TimeSpanMeter" -> <<"consumption_history", "fuel_type">>
      [] cls \in {"TotalHDDMeter", "TotalCDDMeter"} ->
            <<"consumption_history", "fuel_type", "weather_source">>
      [] cls \in {"NormalAnnualHDD", "NormalAnnualCDD"} -> <<"weather_normal_source">>
      [] cls = "NPeriodsMeetingHDDPerDayThreshold" ->
            <<"consumption_history", "fuel_type", "hdd", "weather_source">>
      [] cls = "NPeriodsMeetingCDDPerDayThreshold" ->
            <<"consumption_history", "fuel_type", "cdd", "weather_source">>
      [] cls = "RecentReadingMeter" -> <<"consumption_history", "fuel_type">>
      [] cls = "CVRMSE" -> <<"consumption_history", "weather_source", "fuel_type">>

Dispatch(self, kw) ==
    CASE self.cls = "TemperatureSensitivityParameterOptimizationMeter" ->
            TemperatureSensitivityParameterOptimizationMeter_evaluate_mapped_inputs(
                self, kw.consumption_history, kw.weather_source)
      [] self.cls = "AnnualizedUsageMeter" ->
            AnnualizedUsageMeter_evaluate_mapped_inputs(
                self, kw.temp_sensitivity_params, kw.weather_normal_source)
      [] self.cls = "GrossSavingsMeter" ->
            GrossSavingsMeter_evaluate_mapped_inputs(
                self, kw.temp_sensitivity_params_pre, kw.consumption_history_post,
                kw.weather_source)
      [] self.cls = "AnnualizedGrossSavingsMeter" ->
            AnnualizedGrossSavingsMeter_evaluate_mapped_inputs(
                self, kw.temp_sensitivity_params_pre, kw.temp_sensitivity_params_post,
                kw.consumption_history_post, kw.weather_normal_source)
      [] self.cls = "FuelTypePresenceMeter" ->
            FuelTypePresenceMeter_evaluate_mapped_inputs(self, kw.consumption_history)
      [] self.cls = "ForEachFuelType" ->
            ForEachFuelType_evaluate_mapped_inputs(self, kw)
      [] self.cls = "TimeSpanMeter" ->
            TimeSpanMeter_evaluate_mapped_inputs(self, kw.consumption_history, kw.fuel_type)
      [] self.cls = "TotalHDDMeter" ->
            TotalHDDMeter_evaluate_mapped_inputs(
                self, kw.consumption_history, kw.fuel_type, kw.weather_source)
      [] self.cls = "TotalCDDMeter" ->
            TotalCDDMeter_evaluate_mapped_inputs(
                self, kw.consumption_history, kw.fuel_type, kw.weather_source)
      [] self.cls = "NormalAnnualHDD" ->
            NormalAnnualHDD_evaluate_mapped_inputs(self, kw.weather_normal_source)
      [] self.cls = "NormalAnnualCDD" ->
            NormalAnnualCDD_evaluate_mapped_inputs(self, kw.weather_normal_source)
      [] self.cls = "NPeriodsMeetingHDDPerDayThreshold" ->
            NPeriodsMeetingHDDPerDayThreshold_evaluate_mapped_inputs(
                self, kw.consumption_history, kw.fuel_type, kw.hdd, kw.weather_source)
      [] self.cls = "NPeriodsMeetingCDDPerDayThreshold" ->
            NPeriodsMeetingCDDPerDayThreshold_evaluate_mapped_inputs(
                self, kw.consumption_history, kw.fuel_type, kw.cdd, kw.weather_source)
      [] self.cls = "RecentReadingMeter" ->
            RecentReadingMeter_evaluate_mapped_inputs(
                self, kw.consumption_history, kw.fuel_type)
      [] self.cls = "CVRMSE" ->
            CVRMSE_evaluate_mapped_inputs(
                self, kw.consumption_history, kw.weather_source, kw.fuel_type)

Missing(cls, kwargs) ==
    {i \in 1..Len(Required(cls)) : Required(cls)[i] \notin kwargs.present}

\* MeterBase.evaluate: the call of evaluate_mapped_inputs with the caller's
\* keyword arguments fails when one its signature requires is absent
evaluate(self, kwargs) ==
    IF Missing(self.cls, kwargs) # {}
    THEN LET first == CHOOSE i \in Missing(self.cls, kwargs) :
                          \A j \in Missing(self.cls, kwargs) : i <= j
         IN  Raise("MissingInputError", Required(self.cls)[first])
    ELSE Dispatch(self, kwargs)

(* --------------------------- state machine ----------------------------- *)
(* One caller holds one set of input entities and builds one meter, which  *)
(* it then evaluates any number of times while the wall clock advances.    *)
VARIABLES
    model,    \* the temperature sensitivity model the caller holds
    meter,    \* the meter instance the caller built, NoMeter before
    inputs,   \* the keyword arguments the caller passes to evaluate
    result,   \* what the last evaluate call returned or raised
    calls     \* the evaluate calls made on the meter so far

vars == <<now, model, meter, inputs, result, calls>>

NoMeter == [cls |-> "none"]

Operators == {"lt", "lte", "gt", "gte"}
\* the strings a caller may pass as operation
OperationStrings == Operators \cup {"eq"}

RECURSIVE SumTo(_, _)
SumTo(ds, i) == IF i = 0 THEN 0 ELSE ds[i] + SumTo(ds, i - 1)

\* consecutive periods from day 0 on, of the lengths ds and the usages us
MkPeriods(ds, us) ==
    [i \in 1..Len(ds) |->
        [start |-> SumTo(ds, i - 1), end |-> SumTo(ds, i), usage |-> us[i]]]

\* histories of up to MaxPeriods periods: the odd periods last d days, the
\* even ones one day, with every choice of usages
PeriodSeqs(usages) ==
    UNION {{MkPeriods([i \in 1..m |-> IF i % 2 = 1 THEN d ELSE 1], us) :
               d \in 1..MaxDays, us \in [1..m -> usages]} : m \in 0..MaxPeriods}

Usages == {Num(u) : u \in 1..MaxUsage}
UsagesOrMissing == Usages \cup {NaN}
\* parameter vectors: a first parameter of any value, the others 1
ParamSets ==
    {[i \in 1..m |-> IF i = 1 THEN Num(v) ELSE Num(1)] : m \in 1..MaxParams, v \in 1..MaxParam}
WeatherSources == {[even |-> a, odd |-> b] : a, b \in 0..MaxTemp}
OtherFuel == <<[start |-> 0, end |-> 1, usage |-> Num(1)]>>

Tick ==
    /\ now < MaxTime
    /\ now' = now + 1
    /\ UNCHANGED <<model, meter, inputs, result, calls>>

(* ---- threshold meters ---- *)
InitThreshold ==
    /\ now = ImportTime
    /\ model = [fit |-> <<Num(1)>>]
    /\ meter = NoMeter
    /\ result = NoResult
    /\ calls = 0
    /\ \E ps \in PeriodSeqs({Num(1)}), ws \in WeatherSources, t \in 0..MaxThreshold :
          inputs = [NoInputs EXCEPT
                       !.present = {"consumption_history", "fuel_type", "hdd", "cdd",
                                    "weather_source"},
                       !.consumption_history = [electricity |-> ps, natural_gas |-> OtherFuel],
                       !.fuel_type = "electricity",
                       !.weather_source = ws,
                       !.hdd = Num(t),
                       !.cdd = Num(t)]

Construct_NPeriodsMeetingHDDPerDayThreshold ==
    \E base \in 0..MaxBase, operation \in OperationStrings, proportion \in 1..MaxProportion :
        /\ meter = NoMeter
        /\ meter' = NPeriodsMeetingHDDPerDayThreshold_init(base, "degF", operation, Num(proportion))
        /\ UNCHANGED <<now, model, inputs, result, calls>>

Construct_NPeriodsMeetingCDDPerDayThreshold ==
    \E base \in 0..MaxBase, operation \in OperationStrings, proportion \in 1..MaxProportion :
        /\ meter = NoMeter
        /\ meter' = NPeriodsMeetingCDDPerDayThreshold_init(base, "degF", operation, Num(proportion))
        /\ UNCHANGED <<now, model, inputs, result, calls>>

Evaluate_NPeriodsMeetingHDDPerDayThreshold ==
    /\ meter.cls = "NPeriodsMeetingHDDPerDayThreshold"
    /\ calls < MaxCalls
    /\ result' = evaluate(meter, inputs)
    /\ calls' = calls + 1
    /\ UNCHANGED <<now, model, meter, inputs>>

Evaluate_NPeriodsMeetingCDDPerDayThreshold ==
    /\ meter.cls = "NPeriodsMeetingCDDPerDayThreshold"
    /\ calls < MaxCalls
    /\ result' = evaluate(meter, inputs)
    /\ calls' = calls + 1
    /\ UNCHANGED <<now, model, meter, inputs>>

NextThreshold ==
    \/ Construct_NPeriodsMeetingHDDPerDayThreshold
    \/ Construct_NPeriodsMeetingCDDPerDayThreshold
    \/ Evaluate_NPeriodsMeetingHDDPerDayThreshold
    \/ Evaluate_NPeriodsMeetingCDDPerDayThreshold

SpecThreshold == InitThreshold /\ [][NextThreshold]_vars

ThresholdClasses == {"NPeriodsMeetingHDDPerDayThreshold", "NPeriodsMeetingCDDPerDayThreshold"}

\* the per-day rates the weather source reports for the call, and the
\* threshold proportion * (hdd or cdd) they are compared with
CallRates ==
    LET consumptions == get(inputs.consumption_history, inputs.fuel_type)
    IN  IF meter.cls = "NPeriodsMeetingHDDPerDayThreshold"
        THEN get_hdd_per_day(inputs.weather_source, consumptions, meter.base)
        ELSE get_cdd_per_day(inputs.weather_source, consumptions, meter.base)
CallThreshold ==
    LET t == IF meter.cls = "NPeriodsMeetingHDDPerDayThreshold" THEN inputs.hdd ELSE inputs.cdd
    IN  Fin(meter.proportion.n * t.n, meter.proportion.d * t.d)

\* r op t on the fractions r and t, by cross multiplication
Satisfies(operation, r, t) ==
    CASE operation = "lt" -> r.n * t.d < t.n * r.d
      [] operation = "lte" -> r.n * t.d <= t.n * r.d
      [] operation = "gt" -> r.n * t.d > t.n * r.d
      [] operation = "gte" -> r.n * t.d >= t.n * r.d

\* C4 (as claimed): a threshold meter built with an operation string outside
\* {lt, lte, gt, gte} never exists, so no evaluate of such a meter returns
\* a result (a silent default count).
C4_UnknownOperatorNeverEvaluated ==
    (meter.cls \in ThresholdClasses /\ result.status = "ok")
        => meter.operation \in Operators

\* C5: for each of lt, lte, gt, gte the HDD and CDD threshold meters return
\* n_periods = the number of periods whose per-day rate r satisfies r < t,
\* r <= t, r > t, r >= t, t = proportion * threshold input, so a rate equal
\* to t counts under lte and gte only; and 0 <= n_periods <= number of periods.
C5_ThresholdCount ==
    (meter.cls \in ThresholdClasses /\ meter.operation \in Operators /\ result.status = "ok")
        => /\ DOMAIN result.out = {"n_periods"}
           /\ result.out["n_periods"] =
                 Num(Cardinality({i \in 1..Len(CallRates) :
                                     Satisfies(meter.operation, CallRates[i], CallThreshold)}))
           /\ LessEq(Num(0), result.out["n_periods"])
           /\ LessEq(result.out["n_periods"], Num(Len(CallRates)))

\* three periods, one rate below the threshold and one equal to it, counted under gte: 2
C5_Witness ==
    /\ meter.cls = "NPeriodsMeetingHDDPerDayThreshold"
    /\ meter.operation = "gte"
    /\ result.status = "ok"
    /\ Len(CallRates) = 3
    /\ \E i \in 1..3 : CallRates[i] = CallThreshold
    /\ \E i \in 1..3 : Less(CallRates[i], CallThreshold)
    /\ result.out["n_periods"] = Num(2)

(* ---- fitting, gross savings and goodness-of-fit meters ---- *)
InitFit ==
    /\ now = ImportTime
    /\ \E p \in ParamSets : model = [fit |-> p]
    /\ meter = NoMeter
    /\ result = NoResult
    /\ calls = 0
    /\ \E ps \in PeriodSeqs(UsagesOrMissing), t \in 0..MaxTemp :
          LET history == [electricity |-> ps, natural_gas |-> OtherFuel]
              ws == [even |-> 0, odd |-> t]
          IN  inputs = [NoInputs EXCEPT
                           !.present = {"consumption_history", "consumption_history_post",
                                        "fuel_type", "weather_source",
                                        "temp_sensitivity_params_pre"},
                           !.consumption_history = history,
                           !.consumption_history_post = history,
                           !.fuel_type = "electricity",
                           !.weather_source = ws,
                           !.temp_sensitivity_params_pre = model.fit]

Construct_TemperatureSensitivityParameterOptimizationMeter ==
    /\ meter = NoMeter
    /\ meter' = TemperatureSensitivityParameterOptimizationMeter_init(
                    "kWh", "electricity", "degF", model)
    /\ UNCHANGED <<now, model, inputs, result, calls>>

Construct_GrossSavingsMeter ==
    /\ meter = NoMeter
    /\ meter' = GrossSavingsMeter_init(model, "kWh", "electricity", "degF")
    /\ UNCHANGED <<now, model, inputs, result, calls>>

Construct_CVRMSE ==
    /\ meter = NoMeter
    /\ meter' = CVRMSE_init(model, "kWh")
    /\ UNCHANGED <<now, model, inputs, result, calls>>

Evaluate_TemperatureSensitivityParameterOptimizationMeter ==
    /\ meter.cls = "TemperatureSensitivityParameterOptimizationMeter"
    /\ calls < MaxCalls
    /\ result' = evaluate(meter, inputs)
    /\ calls' = calls + 1
    /\ UNCHANGED <<now, model, meter, inputs>>

Evaluate_GrossSavingsMeter ==
    /\ meter.cls = "GrossSavingsMeter"
    /\ calls < MaxCalls
    /\ result' = evaluate(meter, inputs)
    /\ calls' = calls + 1
    /\ UNCHANGED <<now, model, meter, inputs>>

Evaluate_CVRMSE ==
    /\ meter.cls = "CVRMSE"
    /\ calls < MaxCalls
    /\ result' = evaluate(meter, inputs)
    /\ calls' = calls + 1
    /\ UNCHANGED <<now, model, meter, inputs>>

NextFit ==
    \/ Construct_TemperatureSensitivityParameterOptimizationMeter
    \/ Construct_GrossSavingsMeter
    \/ Construct_CVRMSE
    \/ Evaluate_TemperatureSensitivityParameterOptimizationMeter
    \/ Evaluate_GrossSavingsMeter
    \/ Evaluate_CVRMSE

SpecFit == InitFit /\ [][NextFit]_vars

\* exact sum of f over the index set S
RECURSIVE SumOver(_, _)
SumOver(S, f) ==
    IF S = {} THEN Num(0)
    ELSE LET i == CHOOSE x \in S : TRUE IN Add(f[i], SumOver(S \ {i}, f))

\* the periods the call is about, those of them whose usage is missing, the
\* observed and the estimated daily usage of each and the estimate of its total
FitPeriods ==
    IF meter.cls = "GrossSavingsMeter"
    THEN get(inputs.consumption_history_post, meter.fuel_type)
    ELSE IF meter.cls = "CVRMSE" THEN get(inputs.consumption_history, inputs.fuel_type)
    ELSE get(inputs.consumption_history, meter.fuel_type)
MissingPeriods == {i \in 1..Len(FitPeriods) : FitPeriods[i].usage = NaN}
RemainingPeriods == (1..Len(FitPeriods)) \ MissingPeriods
FitParams ==
    IF meter.cls = "GrossSavingsMeter" THEN inputs.temp_sensitivity_params_pre
    ELSE meter.model.fit
PeriodEstimates ==
    compute_usage_estimates(FitParams, get_daily_temperatures(inputs.weather_source, FitPeriods))
Observed == [i \in 1..Len(FitPeriods) |->
                Fin(FitPeriods[i].usage.n,
                    FitPeriods[i].usage.d * (FitPeriods[i].end - FitPeriods[i].start))]
Estimated == [i \in 1..Len(FitPeriods) |->
                Fin(PeriodEstimates[i].n,
                    PeriodEstimates[i].d * (FitPeriods[i].end - FitPeriods[i].start))]
RemainingMean ==
    LET total == SumOver(RemainingPeriods, Observed)
    IN  Fin(total.n, total.d * Cardinality(RemainingPeriods))

\* C2: with exactly one period's usage missing, daily_standard_error is the
\* sum of |estimated - observed| over the remaining periods divided by
\* sqrt(n), n counting all periods, and gross_savings is the sum of
\* counterfactual - actual over the remaining periods only.
C2_NaNTolerance ==
    (result.status = "ok" /\ Cardinality(MissingPeriods) = 1)
        => /\ meter.cls = "TemperatureSensitivityParameterOptimizationMeter"
                => result.out["daily_standard_error"] =
                      Div(SumOver(RemainingPeriods,
                                  [i \in RemainingPeriods |-> Abs(Sub(Estimated[i], Observed[i]))]),
                          PowHalf(Num(Len(FitPeriods))))
           /\ meter.cls = "GrossSavingsMeter"
                => result.out["gross_savings"] =
                      SumOver(RemainingPeriods,
                              [i \in RemainingPeriods |->
                                  Sub(PeriodEstimates[i], FitPeriods[i].usage)])

\* three periods, the second one missing, and a non-zero standard error
C2_Witness ==
    /\ meter.cls = "TemperatureSensitivityParameterOptimizationMeter"
    /\ result.status = "ok"
    /\ Len(FitPeriods) = 3
    /\ MissingPeriods = {2}
    /\ result.out["daily_standard_error"].k = "fin"
    /\ result.out["daily_standard_error"].n > 0
    /\ result.out["daily_standard_error"].r = 3

\* C3 (as claimed): CVRMSE.evaluate reports a degeneracy error and returns
\* no cvrmse value whenever the number of periods n is at most the number of
\* fitted parameters p.
C3_DegreesOfFreedomChecked ==
    (meter.cls = "CVRMSE" /\ result.status # "none"
        /\ Len(FitPeriods) <= Len(meter.model.fit))
        => (result.status = "error" /\ "cvrmse" \notin DOMAIN result.out)

\* the R-squared denominator is zero: the usages observed are all equal
\* (among them: a single period, no period, all usages missing)
ZeroVariance == \A i, j \in RemainingPeriods : Observed[i] = Observed[j]

\* C8 (as claimed): when the R-squared denominator is zero the fitting meter
\* surfaces a degeneracy error instead of an R_squared obtained by dividing
\* by zero.
C8_ZeroVarianceSurfaced ==
    (meter.cls = "TemperatureSensitivityParameterOptimizationMeter"
        /\ result.status # "none" /\ ZeroVariance)
        => (result.status = "error" /\ "R_squared" \notin DOMAIN result.out)

\* C10 (as claimed): with exactly one period missing and the remaining
\* usages not all equal, R_squared is finite and equals 1 - (sum of squared
\* residuals over the remaining periods) / (sum of squared deviations of the
\* remaining periods' observed usage from their mean).
C10_RSquaredIgnoresMissing ==
    (meter.cls = "TemperatureSensitivityParameterOptimizationMeter"
        /\ result.status = "ok" /\ Cardinality(MissingPeriods) = 1 /\ ~ZeroVariance)
        => /\ result.out["R_squared"].k = "fin"
           /\ result.out["R_squared"] =
                 Sub(Num(1),
                     Div(SumOver(RemainingPeriods,
                                 [i \in RemainingPeriods |-> Sq(Sub(Estimated[i], Observed[i]))]),
                         SumOver(RemainingPeriods,
                                 [i \in RemainingPeriods |-> Sq(Sub(Observed[i], RemainingMean))])))

(* ---- annualized usage and annualized savings ---- *)
FuelTypes == {"electricity", "natural_gas"}

InitAnnual ==
    /\ now = ImportTime
    /\ \E p \in ParamSets : model = [fit |-> p]
    /\ meter = NoMeter
    /\ result = NoResult
    /\ calls = 0
    /\ \E ps \in PeriodSeqs({Num(1)}), wns \in WeatherSources, post \in ParamSets :
          inputs = [NoInputs EXCEPT
                       !.present = {"consumption_history_post", "weather_normal_source",
                                    "temp_sensitivity_params", "temp_sensitivity_params_pre",
                                    "temp_sensitivity_params_post"},
                       !.consumption_history_post =
                           [electricity |-> ps, natural_gas |-> OtherFuel],
                       !.weather_normal_source = wns,
                       !.temp_sensitivity_params = model.fit,
                       !.temp_sensitivity_params_pre = model.fit,
                       !.temp_sensitivity_params_post = post]

Construct_AnnualizedUsageMeter ==
    /\ meter = NoMeter
    /\ meter' = AnnualizedUsageMeter_init("degF", model)
    /\ UNCHANGED <<now, model, inputs, result, calls>>

Construct_AnnualizedGrossSavingsMeter ==
    \E fuel_type \in FuelTypes :
        /\ meter = NoMeter
        /\ meter' = AnnualizedGrossSavingsMeter_init(model, fuel_type, "degF")
        /\ UNCHANGED <<now, model, inputs, result, calls>>

Evaluate_AnnualizedUsageMeter ==
    /\ meter.cls = "AnnualizedUsageMeter"
    /\ calls < MaxCalls
    /\ result' = evaluate(meter, inputs)
    /\ calls' = calls + 1
    /\ UNCHANGED <<now, model, meter, inputs>>

Evaluate_AnnualizedGrossSavingsMeter ==
    /\ meter.cls = "AnnualizedGrossSavingsMeter"
    /\ calls < MaxCalls
    /\ result' = evaluate(meter, inputs)
    /\ calls' = calls + 1
    /\ UNCHANGED <<now, model, meter, inputs>>

NextAnnual ==
    \/ Construct_AnnualizedUsageMeter
    \/ Construct_AnnualizedGrossSavingsMeter
    \/ Evaluate_AnnualizedUsageMeter
    \/ Evaluate_AnnualizedGrossSavingsMeter

SpecAnnual == InitAnnual /\ [][NextAnnual]_vars

\* the annualized usage a direct evaluation of AnnualizedUsageMeter returns
\* for the parameters params and the weather normal source of the call
DirectAnnualizedUsage(params) ==
    evaluate(AnnualizedUsageMeter_init(meter.temperature_unit_str, meter.model),
             [NoInputs EXCEPT !.present = {"temp_sensitivity_params", "weather_normal_source"},
                              !.temp_sensitivity_params = params,
                              !.weather_normal_source = inputs.weather_normal_source]
            ).out["annualized_usage"]

\* the days the post-retrofit periods of the configured fuel type span
PostDays ==
    LET consumptions_post == get(inputs.consumption_history_post, meter.fuel_type)
    IN  IF consumptions_post = <<>> THEN 0
        ELSE SumTo([i \in 1..Len(consumptions_post) |->
                       consumptions_post[i].end - consumptions_post[i].start],
                   Len(consumptions_post))

FanOutFuels == {"gas", "gas_oil", "oil_gas"}
FuelTypeLists == UNION {[1..m -> FanOutFuels] : m \in 0..MaxFuelTypes}
ShortHistories ==
    {MkPeriods(ds, [i \in 1..Len(ds) |-> Num(1)]) : ds \in UNION {[1..m -> 1..MaxDays] : m \in 0..1}}
FanOutNames == {"consumption_history", "weather_source", "hdd"}

\* the meters a fan-out is built around
LeafMeters ==
    {TimeSpanMeter_init,
     TotalHDDMeter_init(1, "degF"),
     NPeriodsMeetingHDDPerDayThreshold_init(1, "degF", "gte", Num(1)),
     RecentReadingMeter_init(0, ImportTime)}
InnerMeters ==
    LeafMeters \cup {ForEachFuelType_init(fuel_types, TimeSpanMeter_init) :
                        fuel_types \in [1..2 -> FanOutFuels]}

InitFanOut ==
    /\ now = ImportTime
    /\ model = [fit |-> <<Num(1)>>]
    /\ meter = NoMeter
    /\ result = NoResult
    /\ calls = 0
    /\ \E gas \in ShortHistories, gas_oil \in {<<>>, OtherFuel},
          absent \in {{}} \cup {{name} : name \in FanOutNames}, given \in BOOLEAN :
          inputs = [NoInputs EXCEPT
                       !.present = (FanOutNames \ absent)
                                   \cup (IF given THEN {"fuel_type"} ELSE {}),
                       !.consumption_history =
                           [gas |-> gas, gas_oil |-> gas_oil, oil_gas |-> OtherFuel],
                       !.fuel_type = IF given THEN "gas" ELSE "",
                       !.weather_source = [even |-> 0, odd |-> 1],
                       !.hdd = Num(1)]

Construct_ForEachFuelType ==
    \E fuel_types \in FuelTypeLists, inner \in InnerMeters :
        /\ meter = NoMeter
        /\ meter' = ForEachFuelType_init(fuel_types, inner)
        /\ UNCHANGED <<now, model, inputs, result, calls>>

Evaluate_ForEachFuelType ==
    /\ meter.cls = "ForEachFuelType"
    /\ calls < MaxCalls
    /\ result' = evaluate(meter, inputs)
    /\ calls' = calls + 1
    /\ UNCHANGED <<now, model, meter, inputs>>

NextFanOut ==
    \/ Construct_ForEachFuelType
    \/ Evaluate_ForEachFuelType

SpecFanOut == InitFanOut /\ [][NextFanOut]_vars

\* what the inner meter returns when evaluated separately with the inputs of
\* the call plus fuel_type = the category
Separately(fuel_type) == evaluate(meter.meter[1], Injected(inputs, fuel_type))

\* C1 (as claimed): over two distinct categories A and B the result's keys
\* are exactly the inner keys of A suffixed _A and those of B suffixed _B,
\* and the value under k_<category> is the value the inner meter returns
\* for k when evaluated separately on that category.
C1_FanOutMerge ==
    (meter.cls = "ForEachFuelType" /\ result.status = "ok"
        /\ Len(meter.fuel_types) = 2 /\ meter.fuel_types[1] # meter.fuel_types[2])
        => LET A == meter.fuel_types[1]
               B == meter.fuel_types[2]
           IN  /\ DOMAIN result.out =
                     {Format(k, A) : k \in DOMAIN Separately(A).out}
                        \cup {Format(k, B) : k \in DOMAIN Separately(B).out}
               /\ \A k \in DOMAIN Separately(A).out :
                     result.out[Format(k, A)] = Separately(A).out[k]
               /\ \A k \in DOMAIN Separately(B).out :
                     result.out[Format(k, B)] = Separately(B).out[k]

InnerSizes ==
    [i \in 1..Len(meter.fuel_types) |->
        Cardinality(DOMAIN Separately(meter.fuel_types[i]).out)]

\* C11 (as claimed): for every configured category list and every inner
\* meter the merged result has one entry per (inner output key, category)
\* pair: its size is the sum over the list of the inner result sizes, and
\* the value written for a category under a renamed key is still there at
\* the end, not overwritten by a later category.
C11_NoKeyCollision ==
    (meter.cls = "ForEachFuelType" /\ result.status = "ok")
        => /\ Cardinality(DOMAIN result.out) = SumTo(InnerSizes, Len(meter.fuel_types))
           /\ \A i \in 1..Len(meter.fuel_types) :
                 \A k \in DOMAIN Separately(meter.fuel_types[i]).out :
                    /\ Format(k, meter.fuel_types[i]) \in DOMAIN result.out
                    /\ result.out[Format(k, meter.fuel_types[i])]
                          = Separately(meter.fuel_types[i]).out[k]

(* ---- every meter of the library, under an advancing clock ---- *)
InitPure ==
    /\ now = ImportTime
    /\ model = [fit |-> <<Num(1)>>]
    /\ meter = NoMeter
    /\ result = NoResult
    /\ calls = 0
    /\ \E ps \in {h \in PeriodSeqs(UsagesOrMissing) : Len(h) <= 1} :
          LET history == [electricity |-> ps, natural_gas |-> OtherFuel,
                          gas |-> ps, gas_oil |-> OtherFuel, oil_gas |-> <<>>]
              source == [even |-> 0, odd |-> MaxTemp]
          IN  inputs = [NoInputs EXCEPT
                           !.present = {"consumption_history", "consumption_history_post",
                                        "weather_source", "weather_normal_source",
                                        "temp_sensitivity_params", "temp_sensitivity_params_pre",
                                        "temp_sensitivity_params_post", "hdd", "cdd",
                                        "fuel_type"},
                           !.consumption_history = history,
                           !.consumption_history_post = history,
                           !.weather_source = source,
                           !.weather_normal_source = source,
                           !.temp_sensitivity_params = model.fit,
                           !.temp_sensitivity_params_pre = model.fit,
                           !.temp_sensitivity_params_post = <<Num(MaxParam)>>,
                           !.hdd = Num(1),
                           !.cdd = Num(1),
                           !.fuel_type = "electricity"]

Construct_FuelTypePresenceMeter ==
    \E fuel_types \in FuelTypeLists :
        /\ meter = NoMeter
        /\ meter' = FuelTypePresenceMeter_init(fuel_types)
        /\ UNCHANGED <<now, model, inputs, result, calls>>

Construct_TimeSpanMeter ==
    /\ meter = NoMeter
    /\ meter' = TimeSpanMeter_init
    /\ UNCHANGED <<now, model, inputs, result, calls>>

Construct_TotalHDDMeter ==
    \E base \in 0..MaxBase :
        /\ meter = NoMeter
        /\ meter' = TotalHDDMeter_init(base, "degF")
        /\ UNCHANGED <<now, model, inputs, result, calls>>

Construct_TotalCDDMeter ==
    \E base \in 0..MaxBase :
        /\ meter = NoMeter
        /\ meter' = TotalCDDMeter_init(base, "degF")
        /\ UNCHANGED <<now, model, inputs, result, calls>>

\* since_date is left to its default or given as the current instant
Construct_RecentReadingMeter ==
    \E n_days \in 0..MaxDays, since_date \in {ImportTime, now} :
        /\ meter = NoMeter
        /\ meter' = RecentReadingMeter_init(n_days, since_date)
        /\ UNCHANGED <<now, model, inputs, result, calls>>

Construct_NormalAnnualHDD ==
    \E base \in 0..MaxBase :
        /\ meter = NoMeter
        /\ meter' = NormalAnnualHDD_init(base, "degF")
        /\ UNCHANGED <<now, model, inputs, result, calls>>

Construct_NormalAnnualCDD ==
    \E base \in 0..MaxBase :
        /\ meter = NoMeter
        /\ meter' = NormalAnnualCDD_init(base, "degF")
        /\ UNCHANGED <<now, model, inputs, result, calls>>

Evaluate_NormalAnnualHDD ==
    /\ meter.cls = "NormalAnnualHDD"
    /\ calls < MaxCalls
    /\ result' = evaluate(meter, inputs)
    /\ calls' = calls + 1
    /\ UNCHANGED <<now, model, meter, inputs>>

Evaluate_NormalAnnualCDD ==
    /\ meter.cls = "NormalAnnualCDD"
    /\ calls < MaxCalls
    /\ result' = evaluate(meter, inputs)
    /\ calls' = calls + 1
    /\ UNCHANGED <<now, model, meter, inputs>>

Evaluate_FuelTypePresenceMeter ==
    /\ meter.cls = "FuelTypePresenceMeter"
    /\ calls < MaxCalls
    /\ result' = evaluate(meter, inputs)
    /\ calls' = calls + 1
    /\ UNCHANGED <<now, model, meter, inputs>>

Evaluate_TimeSpanMeter ==
    /\ meter.cls = "TimeSpanMeter"
    /\ calls < MaxCalls
    /\ result' = evaluate(meter, inputs)
    /\ calls' = calls + 1
    /\ UNCHANGED <<now, model, meter, inputs>>

Evaluate_TotalHDDMeter ==
    /\ meter.cls = "TotalHDDMeter"
    /\ calls < MaxCalls
    /\ result' = evaluate(meter, inputs)
    /\ calls' = calls + 1
    /\ UNCHANGED <<now, model, meter, inputs>>

Evaluate_TotalCDDMeter ==
    /\ meter.cls = "TotalCDDMeter"
    /\ calls < MaxCalls
    /\ result' = evaluate(meter, inputs)
    /\ calls' = calls + 1
    /\ UNCHANGED <<now, model, meter, inputs>>

Evaluate_RecentReadingMeter ==
    /\ meter.cls = "RecentReadingMeter"
    /\ calls < MaxCalls
    /\ result' = evaluate(meter, inputs)
    /\ calls' = calls + 1
    /\ UNCHANGED <<now, model, meter, inputs>>

NextPure ==
    \/ Tick
    \/ Construct_TemperatureSensitivityParameterOptimizationMeter
    \/ Construct_AnnualizedUsageMeter
    \/ Construct_GrossSavingsMeter
    \/ Construct_AnnualizedGrossSavingsMeter
    \/ Construct_FuelTypePresenceMeter
    \/ Construct_ForEachFuelType
    \/ Construct_TimeSpanMeter
    \/ Construct_TotalHDDMeter
    \/ Construct_TotalCDDMeter
    \/ Construct_NormalAnnualHDD
    \/ Construct_NormalAnnualCDD
    \/ Construct_NPeriodsMeetingHDDPerDayThreshold
    \/ Construct_NPeriodsMeetingCDDPerDayThreshold
    \/ Construct_RecentReadingMeter
    \/ Construct_CVRMSE
    \/ Evaluate_TemperatureSensitivityParameterOptimizationMeter
    \/ Evaluate_AnnualizedUsageMeter
    \/ Evaluate_GrossSavingsMeter
    \/ Evaluate_AnnualizedGrossSavingsMeter
    \/ Evaluate_FuelTypePresenceMeter
    \/ Evaluate_ForEachFuelType
    \/ Evaluate_TimeSpanMeter
    \/ Evaluate_TotalHDDMeter
    \/ Evaluate_TotalCDDMeter
    \/ Evaluate_NormalAnnualHDD
    \/ Evaluate_NormalAnnualCDD
    \/ Evaluate_NPeriodsMeetingHDDPerDayThreshold
    \/ Evaluate_NPeriodsMeetingCDDPerDayThreshold
    \/ Evaluate_RecentReadingMeter
    \/ Evaluate_CVRMSE

SpecPure == InitPure /\ [][NextPure]_vars

====
